---- MODULE Spec2Model ----
(***************************************************************************)
(* Model of the Oceanside landing page (src/styles/main.jsx): the lead     *)
(* form (LeadForm), the two canvas components (ParticleField and           *)
(* SoundWaves) with their frame loops, resize listeners and pointer hooks, *)
(* and the page state: theme, booking modal and navigation drawer.         *)
(*                                                                         *)
(* Real numbers are fixed-point integers: positions, velocities and        *)
(* distances are counted in units of 1/Scale pixel.  The device pixel      *)
(* ratio is counted in halves (dpr2 = 2 * dpr).                            *)
(***************************************************************************)
EXTENDS Integers, Sequences, FiniteSets, TLC

VARIABLES
    \* ---- LeadForm ----
    state,          \* the five field values (useState, line 467)
    loading,        \* request in progress (line 468)
    ok,             \* "null", "true" or "false" (line 469)
    network,        \* the POST requests in flight: a sequence of bodies
    lastResponse,   \* how the latest settled request ended
    submits,        \* number of submit events handled by onSubmit
    requests,       \* number of fetch calls issued
    \* ---- window ----
    layout,         \* client size (CSS px) the page layout gives the canvases
    windowDpr2,     \* window.devicePixelRatio, in halves
    rng,            \* state of the Math.random generator
    nextHandle,     \* next id requestAnimationFrame will return
    moves,          \* number of mousemove events dispatched
    frames,         \* number of animation frames in which callbacks ran
    mounted,        \* the page (OceansideSite, with Nav and Hero) is mounted
    mounts,         \* number of times it was mounted
    \* ---- ParticleField ----
    pfPos,          \* useCursor state of the instance (line 108)
    pfMouse,        \* the mouse value closed over by the active effect
    pfCanvas,       \* canvas.width / canvas.height (backing buffer, px)
    particles,      \* particles.current (line 122)
    pfTrace,        \* the statements of the latest run of loop, in order
    pfRaf,          \* the effect's raf handle (line 148)
    pfPending,      \* ids of the pending frame callbacks that run loop
    pfListeners,    \* number of registered window resize listeners
    \* ---- SoundWaves ----
    swPos,          \* useCursor state of the instance (line 108)
    swMouse,        \* the mouse value closed over by the active effect
    swCanvas,       \* canvas.width / canvas.height (backing buffer, px)
    swT,            \* the time accumulator t, in steps of 0.005 (line 209)
    swRaf,          \* the effect's raf handle (line 210)
    swPending,      \* ids of the pending frame callbacks that run draw
    swListeners,    \* number of registered window resize listeners
    \* ---- one particle under the update of loop, for the numeric claims ----
    probe,          \* a particle: x, y, vx, vy, r, o (units)
    probeStart,     \* the particle as it was created
    probeMouse,     \* mouse.x, mouse.y of the effect (CSS px)
    probeSteps,     \* number of updates applied to probe
    \* ---- page state ----
    theme,          \* useTheme state (line 75); "" before the first render
    storage,        \* localStorage item "theme": <<>> or <<value>>
    calOpen,        \* OceansideSite state calOpen (line 1114)
    navOpen,        \* Nav state open (line 939)
    \* ---- hash links ----
    wired,          \* the places whose hash links got the onClick listener
    urlHash,        \* location.hash
    scrollTarget,   \* the href whose element the viewport was last sent to
    lastReplace     \* the href of the latest history.replaceState call

formVars == <<state, loading, ok, network, lastResponse, submits, requests>>

windowVars == <<layout, windowDpr2, rng, nextHandle, moves, frames, mounted, mounts>>

pfVars == <<pfPos, pfMouse, pfCanvas, particles, pfTrace, pfRaf, pfPending,
           pfListeners>>

swVars == <<swPos, swMouse, swCanvas, swT, swRaf, swPending, swListeners>>

canvasVars == <<windowVars, pfVars, swVars>>

probeVars == <<probe, probeStart, probeMouse, probeSteps>>

pageVars == <<theme, storage, calOpen, navOpen>>

navVars == <<wired, urlHash, scrollTarget, lastReplace>>

vars == <<formVars, canvasVars, probeVars, pageVars, navVars>>

----------------------------------------------------------------------------
(* Bounds of the model *)

MaxSubmits == 3

\* Mounts, animation frames and mousemove events of one run of the page.
MaxEvents == 3

\* Updates applied to the single particle of SpecPoint.
MaxProbeSteps == 6

----------------------------------------------------------------------------
(* LeadForm *)

Fields == {"name", "email", "phone", "company", "message"}

\* What a user can have typed into one field.
FieldValues == {"", "x"}

\* The state after construction and after a response (lines 467, 486).
EmptyState == [f \in Fields |-> ""]

\* HTTP statuses a webhook response can carry.
Statuses == {200, 204, 299, 300, 404, 500}

\* Mutant of ResOk: only the status 200 counts as a success.
ResOkOnly200(status) == status = 200

\* Response.ok: true exactly for a status in the range 200-299.
ResOk(status) == status >= 200 /\ status <= 299

NoResponse == [kind |-> "none", status |-> 0]

FormInit ==
    /\ state = EmptyState
    /\ loading = FALSE
    /\ ok = "null"
    /\ network = << >>
    /\ lastResponse = NoResponse
    /\ submits = 0
    /\ requests = 0

\* onChange of one input: setState({...state, [f]: value}).
OnChange(f, v) ==
    /\ state[f] # v
    /\ state' = [state EXCEPT ![f] = v]
    /\ UNCHANGED <<loading, ok, network, lastResponse, submits, requests>>
    /\ UNCHANGED <<canvasVars, probeVars, pageVars, navVars>>

\* The submit control is disabled (disabled={loading}, line 503).
SubmitDisabled == loading

\* Mutant of OnSubmit: the submit control is never disabled.
OnSubmitWhileLoading ==
    /\ submits < MaxSubmits
    /\ state["name"] # "" /\ state["email"] # "" /\ state["message"] # ""
    /\ loading' = TRUE
    /\ ok' = "null"
    /\ network' = Append(network, state)
    /\ submits' = submits + 1
    /\ requests' = requests + 1
    /\ UNCHANGED <<state, lastResponse>>
    /\ UNCHANGED <<canvasVars, probeVars, pageVars, navVars>>

\* Mutant of OnSubmit: the handler leaves ok as it is.
OnSubmitKeepsMessage ==
    /\ ~loading
    /\ submits < MaxSubmits
    /\ state["name"] # "" /\ state["email"] # "" /\ state["message"] # ""
    /\ loading' = TRUE
    /\ network' = Append(network, state)
    /\ submits' = submits + 1
    /\ requests' = requests + 1
    /\ UNCHANGED <<state, lastResponse, ok>>
    /\ UNCHANGED <<canvasVars, probeVars, pageVars, navVars>>

\* onSubmit up to the await (lines 472-484).  The submit event fires only
\* while the submit control is enabled (disabled={loading}, line 503) and the
\* three required fields are filled (lines 496, 497, 500).
OnSubmit ==
    /\ ~loading
    /\ submits < MaxSubmits
    /\ state["name"] # "" /\ state["email"] # "" /\ state["message"] # ""
    /\ loading' = TRUE
    /\ ok' = "null"
    /\ network' = Append(network, state)
    /\ submits' = submits + 1
    /\ requests' = requests + 1
    /\ UNCHANGED <<state, lastResponse>>
    /\ UNCHANGED <<canvasVars, probeVars, pageVars, navVars>>

\* Mutant of FetchResolved: the fields are not reset after a response.
FetchResolvedKeepsFields(status) ==
    /\ network # << >>
    /\ network' = Tail(network)
    /\ ok' = IF ResOk(status) THEN "true" ELSE "false"
    /\ loading' = FALSE
    /\ lastResponse' = [kind |-> "status", status |-> status]
    /\ UNCHANGED <<state, submits, requests>>
    /\ UNCHANGED <<canvasVars, probeVars, pageVars, navVars>>

\* The awaited fetch resolves with a response of the given status: the rest
\* of the try block (lines 485-486), then finally (line 490).
FetchResolved(status) ==
    /\ network # << >>
    /\ network' = Tail(network)
    /\ ok' = IF ResOk(status) THEN "true" ELSE "false"
    /\ state' = EmptyState
    /\ loading' = FALSE
    /\ lastResponse' = [kind |-> "status", status |-> status]
    /\ UNCHANGED <<submits, requests>>
    /\ UNCHANGED <<canvasVars, probeVars, pageVars, navVars>>

\* Mutant of FetchRejected: there is no finally block after the catch.
FetchRejectedStaysLoading ==
    /\ network # << >>
    /\ network' = Tail(network)
    /\ ok' = "false"
    /\ lastResponse' = [kind |-> "error", status |-> 0]
    /\ UNCHANGED <<state, loading, submits, requests>>
    /\ UNCHANGED <<canvasVars, probeVars, pageVars, navVars>>

\* Mutant of FetchRejected: the catch block sends the request again.
FetchRejectedRetries ==
    /\ network # << >>
    /\ network' = Append(Tail(network), Head(network))
    /\ requests' = requests + 1
    /\ UNCHANGED <<state, loading, ok, lastResponse, submits>>
    /\ UNCHANGED <<canvasVars, probeVars, pageVars, navVars>>

\* The awaited fetch rejects (network error): the catch block (line 488),
\* then finally (line 490).
FetchRejected ==
    /\ network # << >>
    /\ network' = Tail(network)
    /\ ok' = "false"
    /\ loading' = FALSE
    /\ lastResponse' = [kind |-> "error", status |-> 0]
    /\ UNCHANGED <<state, submits, requests>>
    /\ UNCHANGED <<canvasVars, probeVars, pageVars, navVars>>

----------------------------------------------------------------------------
(* Arithmetic *)

\* Fixed-point unit: 1 pixel = Scale units (0.001 px, the epsilon of line 158).
Scale == 1000

Abs(n) == IF n < 0 THEN -n ELSE n
Max(a, b) == IF a >= b THEN a ELSE b
Min(a, b) == IF a <= b THEN a ELSE b

\* Division rounding toward zero.
TruncDiv(a, b) == IF a >= 0 THEN a \div b ELSE -((-a) \div b)

\* Math.sqrt of n > 0 rounded down, by Newton's iteration from an estimate
\* x >= sqrt(n).
RECURSIVE SqrtFrom(_, _)
SqrtFrom(n, x) ==
    LET y == (x + n \div x) \div 2
    IN  IF y >= x THEN x ELSE SqrtFrom(n, y)

\* Math.sqrt(dx * dx + dy * dy) in units.  Beyond 2^15 units the operands are
\* coarsened (to 1/32 px, then to about 1 px) so that the squares stay within
\* 32 bits.
Hypot(dx, dy) ==
    LET m == Max(Abs(dx), Abs(dy))
        q == IF m < 32768 THEN 1 ELSE IF m < 1048576 THEN 32 ELSE 1024
        a == TruncDiv(dx, q)
        b == TruncDiv(dy, q)
    IN  IF a = 0 /\ b = 0 THEN 0
        ELSE q * SqrtFrom(a * a + b * b, Abs(a) + Abs(b))

----------------------------------------------------------------------------
(* Window: device pixel ratio, Math.random, layout *)

\* window.devicePixelRatio values, in halves: 1, 1.5 and 3.
DprChoices == {2, 3, 6}

\* dpr = Math.min(window.devicePixelRatio, 2), in halves (lines 123, 194).
Dpr2(w2) == Min(w2, 4)

\* clientWidth x clientHeight the layout can give a canvas (CSS px).
Layouts == { [w |-> 0, h |-> 0], [w |-> 21, h |-> 10], [w |-> 1500, h |-> 900] }

\* clientX / clientY of a mousemove event.
PointerPositions == { [x |-> 0, y |-> 0], [x |-> 5, y |-> 4], [x |-> 400, y |-> 300] }

Origin == [x |-> 0, y |-> 0]

\* Math.random is a generator with hidden state: its results are counted in
\* RandMod-ths of 1, and the k-th call after state s returns Draw(s, k).  The
\* seed is not known to the program.
RandMod == 16
RandStep == 7
Seeds == {0, 5}

Draw(s, k) == (s + k * RandStep) % RandMod

\* canvas.width = clientWidth * dpr: the product is truncated to an integer.
CanvasDim(client, d2) == (client * d2) \div 2

----------------------------------------------------------------------------
(* ParticleField: points *)

MinParticles == 60
AreaPerParticle == 18000

\* Mutant of ParticleCount: the minimum of 60 is not applied.
ParticleCountNoMinimum(cw, ch) == (cw * ch) \div AreaPerParticle

\* Lines 138-139: the number of particles created for a client size.
ParticleCount(cw, ch) == Max(MinParticles, (cw * ch) \div AreaPerParticle)

\* Lines 139-146: the i-th particle, from six calls of Math.random; W and H
\* are canvas.width and canvas.height in px.
NewParticle(s, i, W, H) ==
    LET k == 6 * (i - 1)
    IN  [ x  |-> (Draw(s, k + 1) * W * Scale) \div RandMod,
          y  |-> (Draw(s, k + 2) * H * Scale) \div RandMod,
          vx |-> TruncDiv((2 * Draw(s, k + 3) - RandMod) * 200, RandMod),
          vy |-> TruncDiv((2 * Draw(s, k + 4) - RandMod) * 200, RandMod),
          r  |-> (Draw(s, k + 5) * 2 * Scale) \div RandMod + 500,
          o  |-> (Draw(s, k + 6) * 600) \div RandMod + 200 ]

InitParticles(s, cw, ch, W, H) ==
    [i \in 1..ParticleCount(cw, ch) |-> NewParticle(s, i, W, H)]

\* Line 159: force = Math.min(30 / dist, 0.6), in thousandths.
MaxForce == 600

\* Mutant of Force: the force is not capped.
ForceUncapped(dist) == 30000000 \div dist

Force(dist) == Min(30000000 \div dist, MaxForce)

\* Mutant of Damp: the velocity is not damped.
DampNothing(v) == v

\* Lines 165-166: v *= 0.98.
Damp(v) == TruncDiv(v * 98, 100)

\* Lines 167-168: the velocity component is negated when the coordinate is
\* outside [0, limit].
Reflect(pos, v, limit) == IF pos < 0 \/ pos > limit THEN -v ELSE v

\* Lines 156-168: the update of one particle; mx, my, W, H in units.
UpdatePoint(p, mx, my, W, H) ==
    LET dx   == p.x - mx
        dy   == p.y - my
        dist == Hypot(dx, dy) + 1
        f    == Force(dist)
        vx1  == p.vx + TruncDiv(dx * f, 50 * dist)
        vy1  == p.vy + TruncDiv(dy * f, 50 * dist)
        x1   == p.x + vx1
        y1   == p.y + vy1
    IN  [ x  |-> x1,
          y  |-> y1,
          vx |-> Reflect(x1, Damp(vx1), W),
          vy |-> Reflect(y1, Damp(vy1), H),
          r  |-> p.r,
          o  |-> p.o ]

\* Lines 152-153: mouse.x * dpr, in units.
MouseUnits(c, d2) == (c * d2 * Scale) \div 2

\* Lines 151-174: one run of loop over the particle list.
LoopBody(ps, mouse, canvas, d2) ==
    [i \in DOMAIN ps |->
        UpdatePoint(ps[i], MouseUnits(mouse.x, d2), MouseUnits(mouse.y, d2),
                    canvas.w * Scale, canvas.h * Scale)]

\* One statement of loop: its kind and the index of the particle it works on
\* (0 for the statements outside the forEach).
Stmt(kind, idx) == [op |-> kind, i |-> idx]

\* Mutant of LoopTrace: loop updates every particle, then clears the canvas
\* and draws every particle.
LoopTraceUpdateFirst(n) ==
    [k \in 1 .. (2 * n + 2) |->
        IF k = 1 THEN Stmt("raf", 0)
        ELSE IF k <= n + 1 THEN Stmt("update", k - 1)
        ELSE IF k = n + 2 THEN Stmt("clear", 0)
        ELSE Stmt("draw", k - n - 2)]

\* The statements one run of loop executes on n particles, in order:
\* requestAnimationFrame (line 150), clearRect (line 151), and for each
\* particle in turn its update (lines 156-168) and its drawing (lines
\* 170-173).
LoopTrace(n) ==
    [k \in 1 .. (2 * n + 2) |->
        IF k = 1 THEN Stmt("raf", 0)
        ELSE IF k = 2 THEN Stmt("clear", 0)
        ELSE IF k % 2 = 1 THEN Stmt("update", (k - 1) \div 2)
        ELSE Stmt("draw", (k - 2) \div 2)]

----------------------------------------------------------------------------
(* Frame scheduling and listeners, shared by the two canvas components *)

\* Mutant of CancelFrame: the cleanup cancels nothing.
CancelNothing(pending, raf) == pending

\* cancelAnimationFrame(raf): the callback with that id is no longer pending.
CancelFrame(pending, raf) == pending \ {raf}

\* requestAnimationFrame called once by each of the n callbacks that ran,
\* the first call returning the id h.
Rescheduled(n, h) == h .. (h + n - 1)

\* window.removeEventListener("resize", resize) in the ParticleField cleanup
\* (line 180): one listener fewer.
PfRemoveListener(n) == IF n > 0 THEN n - 1 ELSE 0

\* The SoundWaves cleanup (line 255) only cancels the frame: the listener
\* registered at line 206 stays.
SwRemoveListener(n) == n

NoCanvas == [w |-> 0, h |-> 0]

\* Mounts, animation frames and mousemove events so far.
Events == mounts + frames + moves

\* The height prop of SoundWaves (lines 191, 610).
WaveHeight == 360

CanvasInit ==
    /\ layout \in Layouts
    /\ windowDpr2 \in DprChoices
    /\ rng \in Seeds
    /\ nextHandle = 1
    /\ moves = 0
    /\ frames = 0
    /\ mounted = FALSE
    /\ mounts = 0
    /\ pfPos = Origin /\ pfMouse = Origin
    /\ pfCanvas = NoCanvas
    /\ particles = << >>
    /\ pfTrace = << >>
    /\ pfRaf = 0 /\ pfPending = {} /\ pfListeners = 0
    /\ swPos = Origin /\ swMouse = Origin
    /\ swCanvas = NoCanvas
    /\ swT = 0
    /\ swRaf = 0 /\ swPending = {} /\ swListeners = 0

----------------------------------------------------------------------------
(* The effects of the two components *)

\* The resize listener of ParticleField (lines 130-133) for a client size.
PfResize(cw, ch, d2) == [w |-> CanvasDim(cw, d2), h |-> CanvasDim(ch, d2)]

\* The resize listener of SoundWaves (lines 201-204).
SwResize(cw, d2) == [w |-> CanvasDim(cw, d2), h |-> CanvasDim(WaveHeight, d2)]

\* The particles the ParticleField effect creates (lines 138-146).
PfNewParticles ==
    LET cv == PfResize(layout.w, layout.h, Dpr2(windowDpr2))
    IN  InitParticles(rng, layout.w, layout.h, cv.w, cv.h)

\* Mutant of PfEffect: the effect returns early while the canvas is
\* zero-sized.
PfEffectGuarded(mouse, pend, lst, h) ==
    LET d2 == Dpr2(windowDpr2)
        cv == PfResize(layout.w, layout.h, d2)
    IN  IF cv.w = 0 \/ cv.h = 0
        THEN /\ pfMouse' = mouse
             /\ pfPending' = pend
             /\ pfListeners' = lst
             /\ UNCHANGED <<pfCanvas, particles, pfTrace, pfRaf>>
        ELSE /\ pfCanvas' = cv
             /\ pfListeners' = lst + 1
             /\ particles' = LoopBody(PfNewParticles, mouse, cv, d2)
             /\ pfTrace' = LoopTrace(Len(PfNewParticles))
             /\ pfRaf' = h
             /\ pfPending' = pend \cup {h}
             /\ pfMouse' = mouse

\* The body of the ParticleField effect (lines 126-177) run with the cursor
\* value mouse, after the cleanup of the previous run (if any) left pend and
\* lst; h is the id its requestAnimationFrame call returns.  The first loop
\* call is made by the effect itself (line 177).
PfEffect(mouse, pend, lst, h) ==
    LET d2 == Dpr2(windowDpr2)
        cv == PfResize(layout.w, layout.h, d2)
    IN  /\ pfCanvas' = cv
        /\ pfListeners' = lst + 1
        /\ particles' = LoopBody(PfNewParticles, mouse, cv, d2)
        /\ pfTrace' = LoopTrace(Len(PfNewParticles))
        /\ pfRaf' = h
        /\ pfPending' = pend \cup {h}
        /\ pfMouse' = mouse

\* The body of the SoundWaves effect (lines 197-254): t starts at 0 and the
\* first draw call (line 254) advances it once.
SwEffect(mouse, pend, lst, h) ==
    /\ swCanvas' = SwResize(layout.w, Dpr2(windowDpr2))
    /\ swListeners' = lst + 1
    /\ swT' = 1
    /\ swRaf' = h
    /\ swPending' = pend \cup {h}
    /\ swMouse' = mouse

\* The cleanup of the ParticleField effect (lines 178-181): what it leaves
\* of the pending callbacks and of the listeners.
PfCleanupPending == CancelFrame(pfPending, pfRaf)
PfCleanupListeners == PfRemoveListener(pfListeners)

\* The cleanup of the SoundWaves effect (line 255).
SwCleanupPending == CancelFrame(swPending, swRaf)
SwCleanupListeners == SwRemoveListener(swListeners)

\* n runs of loop over the particle list.
RECURSIVE LoopTimes(_, _, _, _, _)
LoopTimes(ps, n, mouse, canvas, d2) ==
    IF n = 0 THEN ps
    ELSE LoopTimes(LoopBody(ps, mouse, canvas, d2), n - 1, mouse, canvas, d2)

----------------------------------------------------------------------------
(* Page state: theme, booking modal, navigation drawer *)

\* localStorage holds no item "theme": getItem returns null.
NoItem == <<>>

\* What localStorage can hold under "theme" when the page is loaded: nothing,
\* the empty string, a value the page wrote, or any other string.
StoredThemes == { NoItem, <<"">>, <<"dark">>, <<"light">>, <<"blue">> }

\* The initial value of the theme state (lines 75-77): the stored string
\* when it is truthy, else "dark".
ReadTheme(store) ==
    IF store # NoItem /\ store[1] # "" THEN store[1] ELSE "dark"

\* Mutant of ThemeEffect: the effect does not write the item.
ThemeEffectSkipsWrite(store, th) == store

\* The theme effect (lines 79-84) on localStorage: setItem("theme", theme)
\* unless theme is falsy.
ThemeEffect(store, th) == IF th = "" THEN store ELSE <<th>>

\* The value the toggle button sets (line 91).
Toggled(th) == IF th = "dark" THEN "light" ELSE "dark"

\* The two ThemeToggle buttons of Nav (lines 1043 and 1052).
ThemeButtons == {"desktop", "mobile"}

\* The buttons wired to onOpenCalendly: Nav (line 1045), the drawer of Nav
\* (line 1076), Hero (line 592), Contact (line 922) and Footer (line 1100).
BookingTriggers == {"nav", "drawer", "hero", "contact", "footer"}

\* The elements of CalendlyModal wired to onClose: the backdrop (line 275)
\* and the Close button (line 289).
ModalClosers == {"backdrop", "close"}

\* COMPANY.calendly (line 326).
CalendlyUrl == "https://calendly.com/mark-oceansideaisolutions/ai-voice-pioneers-onboarding"

\* CalendlyModal renders its dialog only when open (line 268).
ModalShown == mounted /\ calOpen

\* The src of the iframe of the dialog (line 297): the url prop, which
\* OceansideSite sets to COMPANY.calendly (line 1180).
IframeSrc == CalendlyUrl

\* The places of the page that render hash links: the bar of Nav (lines
\* 1031, 1039), the drawer of Nav (line 1072), the sections (lines 600, 683,
\* 854) and Footer (lines 1098-1099).
LinkPlaces == {"bar", "drawer", "section", "footer"}

\* The places rendered while the drawer is open or closed (line 1063).
RenderedPlaces(open) == IF open THEN LinkPlaces ELSE LinkPlaces \ {"drawer"}

\* The links array of Nav (lines 940-949).
NavHrefs == {"#services", "#work", "#mission", "#about", "#integrations",
             "#pricing", "#faq", "#contact"}

\* The hash links of the page, each with the place that renders it.
Links ==
    [place : {"bar"}, href : NavHrefs \cup {"#home"}]
        \cup [place : {"drawer"}, href : NavHrefs]
        \cup [place : {"section"}, href : {"#contact"}]
        \cup [place : {"footer"}, href : {"#privacy", "#terms"}]

\* The ids of the Section elements (lines 557, 640, 675, 724, 758, 790, 820,
\* 872, 898), as the selectors that find them.
SectionIds == NavHrefs \cup {"#home"}

\* document.querySelector(href) finds an element (lines 1006-1007).
TargetExists(href) == href \in SectionIds

\* No scrolling, no replaceState call and no hash yet.
NoHref == ""

\* Before the first render there is no component state.
PageQuiet ==
    /\ theme = ""
    /\ calOpen = FALSE
    /\ navOpen = FALSE
    /\ wired = {}
    /\ urlHash = NoHref
    /\ scrollTarget = NoHref
    /\ lastReplace = NoHref

----------------------------------------------------------------------------
(* Page life cycle and window events *)

\* The page is rendered (lines 1112-1186).  OceansideSite reads the theme
\* and starts with the modal closed, Nav with the drawer closed, and Hero
\* (lines 552-612) renders both canvas components with the cursor at the
\* origin.  Then the effects of the commit run: ParticleField, SoundWaves,
\* the hash-link effect of Nav (lines 999-1025), which puts its listener on
\* the hash links rendered by then, and last the theme effect of
\* OceansideSite.
Mount ==
    /\ ~mounted
    /\ Events < MaxEvents
    /\ mounted' = TRUE
    /\ mounts' = mounts + 1
    /\ pfPos' = Origin
    /\ swPos' = Origin
    /\ PfEffect(Origin, pfPending, pfListeners, nextHandle)
    /\ SwEffect(Origin, swPending, swListeners, nextHandle + 1)
    /\ nextHandle' = nextHandle + 2
    /\ rng' = Draw(rng, 6 * Len(PfNewParticles))
    /\ theme' = ReadTheme(storage)
    /\ storage' = ThemeEffect(storage, ReadTheme(storage))
    /\ calOpen' = FALSE
    /\ navOpen' = FALSE
    /\ wired' = RenderedPlaces(FALSE)
    /\ UNCHANGED <<urlHash, scrollTarget, lastReplace>>
    /\ UNCHANGED <<layout, windowDpr2, moves, frames>>
    /\ UNCHANGED <<formVars, probeVars>>

\* The cursor changed since the effects ran (deps, lines 182 and 256): React
\* runs the cleanups of the previous run and then the effects again.
EffectRerun ==
    /\ mounted
    /\ pfPos # pfMouse \/ swPos # swMouse
    /\ IF pfPos # pfMouse
       THEN PfEffect(pfPos, PfCleanupPending, PfCleanupListeners, nextHandle)
       ELSE UNCHANGED <<pfMouse, pfCanvas, particles, pfTrace, pfRaf, pfPending,
                        pfListeners>>
    /\ IF swPos # swMouse
       THEN SwEffect(swPos, SwCleanupPending, SwCleanupListeners, nextHandle + 1)
       ELSE UNCHANGED <<swMouse, swCanvas, swT, swRaf, swPending, swListeners>>
    /\ nextHandle' = nextHandle + 2
    /\ rng' = IF pfPos # pfMouse THEN Draw(rng, 6 * Len(PfNewParticles)) ELSE rng
    /\ UNCHANGED <<layout, windowDpr2, moves, frames, mounted, mounts, pfPos, swPos>>
    /\ UNCHANGED <<formVars, probeVars, pageVars, navVars>>

\* Mutant of AnimationFrame: the callbacks request the next frame without
\* storing its id in raf.
AnimationFrameForgetsHandle ==
    /\ Events < MaxEvents
    /\ pfPending # {} \/ swPending # {}
    /\ frames' = frames + 1
    /\ LET np == Cardinality(pfPending)
           ns == Cardinality(swPending)
       IN  /\ pfPending' = Rescheduled(np, nextHandle)
           /\ particles' = LoopTimes(particles, np, pfMouse, pfCanvas, Dpr2(windowDpr2))
           /\ pfTrace' = IF np > 0 THEN LoopTrace(Len(particles)) ELSE pfTrace
           /\ swPending' = Rescheduled(ns, nextHandle + np)
           /\ swT' = swT + ns
           /\ nextHandle' = nextHandle + np + ns
    /\ UNCHANGED <<layout, windowDpr2, rng, moves, mounted, mounts>>
    /\ UNCHANGED <<pfPos, pfMouse, pfCanvas, pfListeners, pfRaf>>
    /\ UNCHANGED <<swPos, swMouse, swCanvas, swListeners, swRaf>>
    /\ UNCHANGED <<formVars, probeVars, pageVars, navVars>>

\* Mutant of AnimationFrame: the callbacks do not request the next frame.
AnimationFrameRunsOnce ==
    /\ Events < MaxEvents
    /\ pfPending # {} \/ swPending # {}
    /\ frames' = frames + 1
    /\ LET np == Cardinality(pfPending)
           ns == Cardinality(swPending)
       IN  /\ pfPending' = {}
           /\ particles' = LoopTimes(particles, np, pfMouse, pfCanvas, Dpr2(windowDpr2))
           /\ pfTrace' = IF np > 0 THEN LoopTrace(Len(particles)) ELSE pfTrace
           /\ swPending' = {}
           /\ swT' = swT + ns
    /\ UNCHANGED <<layout, windowDpr2, rng, nextHandle, moves, mounted, mounts>>
    /\ UNCHANGED <<pfPos, pfMouse, pfCanvas, pfListeners, pfRaf>>
    /\ UNCHANGED <<swPos, swMouse, swCanvas, swListeners, swRaf>>
    /\ UNCHANGED <<formVars, probeVars, pageVars, navVars>>

\* An animation frame: the browser runs the pending frame callbacks, loop
\* (lines 149-175) and draw (lines 212-252), each of which first requests
\* the next frame.
AnimationFrame ==
    /\ Events < MaxEvents
    /\ pfPending # {} \/ swPending # {}
    /\ frames' = frames + 1
    /\ LET np == Cardinality(pfPending)
           ns == Cardinality(swPending)
       IN  /\ pfPending' = Rescheduled(np, nextHandle)
           /\ pfRaf' = IF np > 0 THEN nextHandle + np - 1 ELSE pfRaf
           /\ particles' = LoopTimes(particles, np, pfMouse, pfCanvas, Dpr2(windowDpr2))
           /\ pfTrace' = IF np > 0 THEN LoopTrace(Len(particles)) ELSE pfTrace
           /\ swPending' = Rescheduled(ns, nextHandle + np)
           /\ swRaf' = IF ns > 0 THEN nextHandle + np + ns - 1 ELSE swRaf
           /\ swT' = swT + ns
           /\ nextHandle' = nextHandle + np + ns
    /\ UNCHANGED <<layout, windowDpr2, rng, moves, mounted, mounts>>
    /\ UNCHANGED <<pfPos, pfMouse, pfCanvas, pfListeners>>
    /\ UNCHANGED <<swPos, swMouse, swCanvas, swListeners>>
    /\ UNCHANGED <<formVars, probeVars, pageVars, navVars>>

\* The page is unmounted (reload, navigation): the cleanups of the active
\* effects run.
Unmount ==
    /\ mounted
    /\ mounted' = FALSE
    /\ pfPending' = PfCleanupPending
    /\ pfListeners' = PfCleanupListeners
    /\ swPending' = SwCleanupPending
    /\ swListeners' = SwCleanupListeners
    /\ UNCHANGED <<layout, windowDpr2, rng, nextHandle, moves, frames, mounts>>
    /\ UNCHANGED <<pfPos, pfMouse, pfCanvas, particles, pfTrace, pfRaf>>
    /\ UNCHANGED <<swPos, swMouse, swCanvas, swT, swRaf>>
    /\ UNCHANGED <<formVars, probeVars, pageVars, navVars>>

\* A mousemove event: the onMove listener of each instance of useCursor sets
\* its pos (lines 110-113).
PointerMove(p) ==
    /\ mounted
    /\ Events < MaxEvents
    /\ moves' = moves + 1
    /\ pfPos' = p
    /\ swPos' = p
    /\ UNCHANGED <<layout, windowDpr2, rng, nextHandle, frames, mounted, mounts>>
    /\ UNCHANGED <<pfMouse, pfCanvas, particles, pfTrace, pfRaf, pfPending, pfListeners>>
    /\ UNCHANGED <<swMouse, swCanvas, swT, swRaf, swPending, swListeners>>
    /\ UNCHANGED <<formVars, probeVars, pageVars, navVars>>

\* Mutant of WindowResize: the listeners also create the particles anew and
\* reset the time accumulator.
WindowResizeReinit(l) ==
    /\ l # layout
    /\ layout' = l
    /\ pfCanvas' = IF pfListeners > 0
                   THEN PfResize(l.w, l.h, Dpr2(windowDpr2)) ELSE pfCanvas
    /\ swCanvas' = IF swListeners > 0
                   THEN SwResize(l.w, Dpr2(windowDpr2)) ELSE swCanvas
    /\ particles' = IF pfListeners > 0
                    THEN InitParticles(rng, l.w, l.h, CanvasDim(l.w, Dpr2(windowDpr2)),
                                       CanvasDim(l.h, Dpr2(windowDpr2)))
                    ELSE particles
    /\ swT' = IF swListeners > 0 THEN 0 ELSE swT
    /\ UNCHANGED <<windowDpr2, rng, nextHandle, moves, frames, mounted, mounts>>
    /\ UNCHANGED <<pfPos, pfMouse, pfTrace, pfRaf, pfPending, pfListeners>>
    /\ UNCHANGED <<swPos, swMouse, swRaf, swPending, swListeners>>
    /\ navOpen' = FALSE
    /\ UNCHANGED <<theme, storage, calOpen>>
    /\ UNCHANGED <<formVars, probeVars, navVars>>

\* The window is resized to a new layout and the resize event is dispatched
\* to every registered listener.
WindowResize(l) ==
    /\ l # layout
    /\ layout' = l
    /\ pfCanvas' = IF pfListeners > 0
                   THEN PfResize(l.w, l.h, Dpr2(windowDpr2)) ELSE pfCanvas
    /\ swCanvas' = IF swListeners > 0
                   THEN SwResize(l.w, Dpr2(windowDpr2)) ELSE swCanvas
    /\ UNCHANGED <<windowDpr2, rng, nextHandle, moves, frames, mounted, mounts>>
    /\ UNCHANGED <<pfPos, pfMouse, particles, pfTrace, pfRaf, pfPending, pfListeners>>
    /\ UNCHANGED <<swPos, swMouse, swT, swRaf, swPending, swListeners>>
    /\ navOpen' = FALSE
    /\ UNCHANGED <<theme, storage, calOpen>>
    /\ UNCHANGED <<formVars, probeVars, navVars>>

\* A click on a ThemeToggle button (line 91): the theme flips, and the theme
\* effect of the commit writes it to localStorage (lines 79-84).
ToggleTheme(b) ==
    /\ mounted
    /\ theme' = Toggled(theme)
    /\ storage' = ThemeEffect(storage, Toggled(theme))
    /\ UNCHANGED <<calOpen, navOpen>>
    /\ UNCHANGED <<formVars, canvasVars, probeVars, navVars>>

\* Mutant of OpenCalendly: the handler flips the flag.
OpenCalendlyFlips(t) ==
    /\ mounted
    /\ t = "drawer" => navOpen
    /\ calOpen' = ~calOpen
    /\ UNCHANGED <<theme, storage, navOpen>>
    /\ UNCHANGED <<formVars, canvasVars, probeVars, navVars>>

\* A click on a button wired to onOpenCalendly: setCalOpen(true) (lines 1149,
\* 1152, 1175, 1177).  The button of the drawer exists while the drawer is
\* open (line 1063).
OpenCalendly(t) ==
    /\ mounted
    /\ t = "drawer" => navOpen
    /\ calOpen' = TRUE
    /\ UNCHANGED <<theme, storage, navOpen>>
    /\ UNCHANGED <<formVars, canvasVars, probeVars, navVars>>

\* A click on the backdrop or on the Close button of the dialog, which exist
\* while the modal is open: setCalOpen(false) (line 1180).
CloseCalendly(h) ==
    /\ mounted
    /\ calOpen
    /\ calOpen' = FALSE
    /\ UNCHANGED <<theme, storage, navOpen>>
    /\ UNCHANGED <<formVars, canvasVars, probeVars, navVars>>

\* A click on the menu button of Nav: setOpen(v => !v) (line 1055).
ToggleMenu ==
    /\ mounted
    /\ navOpen' = ~navOpen
    /\ UNCHANGED <<theme, storage, calOpen>>
    /\ UNCHANGED <<formVars, canvasVars, probeVars, navVars>>

\* The browser's own handling of a click on a hash link that no listener
\* prevented: it navigates to the fragment, and jumps to the element with
\* that id when there is one.
DefaultNavigation(l) ==
    /\ urlHash' = l.href
    /\ scrollTarget' = IF TargetExists(l.href) THEN l.href ELSE scrollTarget
    /\ UNCHANGED <<lastReplace, navOpen>>

\* Mutant of HashClick: the listener does not test the target.
HashClickNoTargetTest(l) ==
    /\ mounted
    /\ l.place \in RenderedPlaces(navOpen)
    /\ IF l.place \in wired /\ l.href # "" /\ l.href # "#"
       THEN /\ navOpen' = FALSE
            /\ scrollTarget' = l.href
            /\ lastReplace' = l.href
            /\ urlHash' = l.href
       ELSE DefaultNavigation(l)
    /\ UNCHANGED <<theme, storage, calOpen, wired>>
    /\ UNCHANGED <<formVars, canvasVars, probeVars>>

\* A click on a rendered hash link.  On a link that got the listener at
\* mount, onClick runs (lines 1003-1013): when the target exists it prevents
\* the default, closes the drawer, starts scrolling to the target and
\* replaces the history entry, which sets the hash.  Otherwise the browser
\* handles the click.
HashClick(l) ==
    /\ mounted
    /\ l.place \in RenderedPlaces(navOpen)
    /\ IF l.place \in wired /\ l.href # "" /\ l.href # "#" /\ TargetExists(l.href)
       THEN /\ navOpen' = FALSE
            /\ scrollTarget' = l.href
            /\ lastReplace' = l.href
            /\ urlHash' = l.href
       ELSE DefaultNavigation(l)
    /\ UNCHANGED <<theme, storage, calOpen, wired>>
    /\ UNCHANGED <<formVars, canvasVars, probeVars>>

\* A click on a card of the services section (lines 1119-1126):
\* window.location.hash = '#contact', and the browser jumps to the section.
ServiceCardClick ==
    /\ mounted
    /\ urlHash' = "#contact"
    /\ scrollTarget' = "#contact"
    /\ UNCHANGED <<wired, lastReplace>>
    /\ UNCHANGED <<formVars, canvasVars, probeVars, pageVars>>

----------------------------------------------------------------------------
(* One particle: the update of lines 156-168 applied to chosen inputs *)

\* The canvas of the single particle: the default canvas size, 300 x 150 px,
\* at a device pixel ratio of 1.
ProbeCanvas == [w |-> 300, h |-> 150]

\* Positions (units) Math.random() * canvas.width can produce: on and next to
\* the left edge, inside, next to the right edge.
ProbeXs == {0, 1, 150000, 299900, 299999}
ProbeYs == {0, 75000, 149999}

\* Velocity components (units) (Math.random() - 0.5) * 0.4 can produce.
ProbeVs == {-200, -100, 0, 100, 199}

\* Cursor positions (CSS px).
ProbeMice == { [x |-> 0, y |-> 0], [x |-> 150, y |-> 75], [x |-> 900, y |-> 600] }

\* The particle sits still until SpecPoint draws it.
ProbeIdle == [x |-> 0, y |-> 0, vx |-> 0, vy |-> 0, r |-> 500, o |-> 200]

ProbeQuiet ==
    /\ probe = ProbeIdle
    /\ probeStart = ProbeIdle
    /\ probeMouse = Origin
    /\ probeSteps = 0

ProbeInit ==
    /\ probe \in [x : ProbeXs, y : ProbeYs, vx : ProbeVs, vy : ProbeVs,
                  r : {500}, o : {200}]
    /\ probeStart = probe
    /\ probeMouse \in ProbeMice
    /\ probeSteps = 0

\* One run of the forEach body on the particle.
ProbeStep ==
    /\ probeSteps < MaxProbeSteps
    /\ probe' = UpdatePoint(probe, MouseUnits(probeMouse.x, 2),
                            MouseUnits(probeMouse.y, 2),
                            ProbeCanvas.w * Scale, ProbeCanvas.h * Scale)
    /\ probeSteps' = probeSteps + 1
    /\ UNCHANGED <<probeStart, probeMouse>>
    /\ UNCHANGED <<formVars, canvasVars, pageVars, navVars>>

\* Lines 167-168: the particle is outside [0, width] x [0, height].
OutOfBounds(p, W, H) == p.x < 0 \/ p.x > W \/ p.y < 0 \/ p.y > H

----------------------------------------------------------------------------
(* Specifications *)

\* One environment of the canvases, for the specifications that leave them
\* alone.
CanvasQuiet ==
    /\ CanvasInit
    /\ layout = [w |-> 1500, h |-> 900]
    /\ windowDpr2 = 2
    /\ rng = 0

\* The page was never loaded in this browser: no item "theme".
StorageEmpty == PageQuiet /\ storage = NoItem

\* The form with every field filled in and nothing submitted yet.
FormFilled ==
    /\ state = [f \in Fields |-> "x"]
    /\ loading = FALSE
    /\ ok = "null"
    /\ network = <<>>
    /\ lastResponse = NoResponse
    /\ submits = 0
    /\ requests = 0

Init == FormInit /\ CanvasInit /\ ProbeQuiet /\ StorageEmpty

InitForm == FormInit /\ CanvasQuiet /\ ProbeQuiet /\ StorageEmpty

InitPoint == FormInit /\ CanvasQuiet /\ ProbeInit /\ StorageEmpty

InitPage == FormFilled /\ CanvasQuiet /\ ProbeQuiet /\ PageQuiet /\ storage \in StoredThemes

FormNext ==
    \/ \E f \in Fields, v \in FieldValues : OnChange(f, v)
    \/ OnSubmit
    \/ \E s \in Statuses : FetchResolved(s)
    \/ FetchRejected

CanvasNext ==
    \/ Mount
    \/ EffectRerun
    \/ AnimationFrame
    \/ Unmount
    \/ \E p \in PointerPositions : PointerMove(p)
    \/ \E l \in Layouts : WindowResize(l)

PageNext ==
    \/ Mount
    \/ Unmount
    \/ \E b \in ThemeButtons : ToggleTheme(b)
    \/ \E t \in BookingTriggers : OpenCalendly(t)
    \/ \E h \in ModalClosers : CloseCalendly(h)
    \/ ToggleMenu
    \/ \E l \in Layouts : WindowResize(l)
    \/ OnSubmit
    \/ \E s \in Statuses : FetchResolved(s)
    \/ FetchRejected

NavNext ==
    \/ Mount
    \/ ToggleMenu
    \/ \E l \in Links : HashClick(l)
    \/ ServiceCardClick
    \/ \E l \in Layouts : WindowResize(l)

Next == FormNext \/ CanvasNext \/ PageNext \/ NavNext

\* The whole page.
Spec == Init /\ [][Next]_vars

\* The lead form alone.
SpecForm == InitForm /\ [][FormNext]_vars

\* The lead form with a webhook that answers: every request in flight is
\* settled, by a response or by a network error.
SpecFormSettling ==
    /\ InitForm
    /\ [][FormNext]_vars
    /\ WF_vars(FetchRejected \/ \E s \in Statuses : FetchResolved(s))

\* The canvas components and the window events alone.
SpecCanvas == Init /\ [][CanvasNext]_vars

\* The page state under the events of the page: theme toggles, booking
\* triggers, the drawer, form submissions, resizes and reloads.
SpecPage == InitPage /\ [][PageNext]_vars

\* The navigation: the drawer, the hash links and the resizes that close the
\* drawer.
SpecNav == InitForm /\ [][NavNext]_vars

\* The update of one particle alone.
SpecPoint == InitPoint /\ [][ProbeStep]_vars

----------------------------------------------------------------------------
(* Claims *)

\* Lines 516-521: the two inline messages.
SuccessShown == ok = "true"
FailureShown == ok = "false"

\* The latest attempt has settled and no new one has started.
Settled == ~loading /\ lastResponse.kind # "none"

\* C1: once a submission attempt has settled, a 2xx response leaves the
\* success message shown, any other status or a network error leaves the
\* failure message shown, and exactly one of the two messages is shown.
C1_OutcomeMapping ==
    Settled =>
        /\ (lastResponse.kind = "status" /\ lastResponse.status \in 200..299)
              => (SuccessShown /\ ~FailureShown)
        /\ (lastResponse.kind = "status" /\ lastResponse.status \notin 200..299)
              => (FailureShown /\ ~SuccessShown)
        /\ lastResponse.kind = "error" => (FailureShown /\ ~SuccessShown)

\* C1 witness: an attempt settled with a 2xx status other than 200 and the
\* success message is shown.
C1_Witness ==
    Settled /\ lastResponse.kind = "status" /\ lastResponse.status = 204
            /\ SuccessShown

\* The step in which the in-flight attempt settles.
Settles == loading /\ ~loading'

\* C2 as stated: whatever the outcome, every field is the empty string once
\* the attempt has settled.
C2_Original == [][Settles => state' = EmptyState]_vars

\* C2 amended: the fields are cleared when the request resolves with a
\* response (2xx or not); when the request throws, the fields keep what
\* they held.
C2_ClearedOnResponse ==
    [][Settles => /\ lastResponse'.kind = "status" => state' = EmptyState
                  /\ lastResponse'.kind = "error" => state' = state]_vars

\* C2 witness: an attempt ended with a network error and the form still
\* holds the submitted values.
C2_Witness ==
    Settled /\ lastResponse.kind = "error" /\ state["name"] = "x"
            /\ state["email"] = "x" /\ state["message"] = "x" /\ submits = 1

\* C3: the number of POST requests issued equals the number of submit
\* events; a failed attempt issues no further request.
C3_OneRequestPerSubmit == requests = submits /\ Len(network) <= 1

\* C3 witness: two submit events, the second after a failure, and two
\* requests.
C3_Witness == submits = 2 /\ requests = 2 /\ Settled /\ FailureShown

\* C4: at most one frame callback of each canvas component is pending.
\* (Callbacks run to completion one after the other, so no two overlap.)
C4_OnePendingFrame ==
    Cardinality(pfPending) <= 1 /\ Cardinality(swPending) <= 1

\* C4 witness: after frames, a pointer move and the re-run of the effects,
\* each component has exactly one callback pending.
C4_Witness ==
    /\ mounted /\ frames > 0 /\ moves > 0
    /\ pfMouse # Origin /\ pfMouse = pfPos
    /\ Cardinality(pfPending) = 1 /\ Cardinality(swPending) = 1

\* C5: after teardown no frame callback of either component is pending, so
\* none runs again.
C5_CancelledOnTeardown == ~mounted => (pfPending = {} /\ swPending = {})

\* C5 witness: the page was torn down after frames had run and between a
\* pointer move and the re-run of the effects.
C5_Witness ==
    /\ ~mounted /\ mounts > 0 /\ frames > 0
    /\ pfPos # pfMouse
    /\ pfPending = {} /\ swPending = {}

\* C6 as stated: neither component ever has more than one resize listener
\* registered, and none is registered after unmount.
C6_Original ==
    /\ pfListeners <= 1 /\ swListeners <= 1
    /\ ~mounted => (pfListeners = 0 /\ swListeners = 0)

\* C7: a window resize changes the canvas width and height only: particles,
\* time accumulator, pending callbacks and raf handles stay as they are.
C7_ResizeKeepsState ==
    [][layout' # layout =>
          /\ particles' = particles
          /\ swT' = swT
          /\ pfPending' = pfPending /\ swPending' = swPending
          /\ pfRaf' = pfRaf /\ swRaf' = swRaf
          /\ mounted =>
                /\ pfCanvas' = [w |-> (layout'.w * Min(windowDpr2, 4)) \div 2,
                                h |-> (layout'.h * Min(windowDpr2, 4)) \div 2]
                /\ swCanvas'.w = (layout'.w * Min(windowDpr2, 4)) \div 2]_vars

\* C7 witness: the canvas follows a layout for which 75 particles would be
\* created, and the 60 particles created before the resize are still there
\* after a frame.
C7_Witness ==
    /\ mounted /\ frames > 0
    /\ layout = [w |-> 1500, h |-> 900]
    /\ pfCanvas.w >= 1500
    /\ Len(particles) = 60

\* The drawing surface is zero-sized.
ZeroSized == layout.w = 0 \/ layout.h = 0

ProbeOut(p) == OutOfBounds(p, ProbeCanvas.w * Scale, ProbeCanvas.h * Scale)

\* C9 as stated: a point that is outside the bounds after one update is
\* back inside the bounds after the next update.
C9_Original ==
    [][(probeSteps > 0 /\ probeSteps' = probeSteps + 1 /\ ProbeOut(probe))
          => ~ProbeOut(probe')]_vars

\* A step in which the ParticleField effect runs and creates the particles.
PfInitStep == mounts' # mounts \/ pfMouse' # pfMouse

\* C10 as stated: the number of particles created is
\* max(60, floor(W * H / 18000)) for the backing-buffer size W x H.
C10_Original ==
    [][PfInitStep =>
          Len(particles') = Max(60, (pfCanvas'.w * pfCanvas'.h) \div 18000)]_vars

\* C10 amended: the number of particles created is
\* max(60, floor(cw * ch / 18000)) for the client size cw x ch in CSS pixels.
C10_CountFromClientSize ==
    [][PfInitStep =>
          Len(particles') = Max(60, (layout'.w * layout'.h) \div 18000)]_vars

\* C10 witness: at a device pixel ratio of 1.5 a 1500 x 900 client area has
\* a 2250 x 1350 backing buffer and 75 particles.
C10_Witness ==
    /\ mounted /\ windowDpr2 = 3
    /\ layout = [w |-> 1500, h |-> 900]
    /\ pfCanvas = [w |-> 2250, h |-> 1350]
    /\ Len(particles) = 75

\* C11: the theme survives a reload.  When the page is rendered again after
\* the theme was "light" (or "dark"), the theme it reads is "light" (or
\* "dark"), and when localStorage holds no item the theme it reads is "dark".
C11_RoundTrip ==
    [][mounts' # mounts =>
          /\ theme \in {"light", "dark"} => theme' = theme
          /\ storage = NoItem => theme' = "dark"]_vars

\* The page was loaded again and read back "light".
C11_Witness == mounts >= 2 /\ mounted /\ theme = "light" /\ storage = <<"light">>

\* C12: while the page is mounted, that is after the theme effect has run,
\* the stored theme equals the theme in memory and is "dark" or "light",
\* whatever localStorage held when the page was loaded.
C12_Original ==
    mounted => storage = <<theme>> /\ theme \in {"dark", "light"}

\* A step of a handler wired to onOpenCalendly, and of one wired to onClose.
BookingStep == \E t \in BookingTriggers : OpenCalendly(t)
ClosingStep == \E h \in ModalClosers : CloseCalendly(h)

\* C13: the modal is shown exactly when calOpen is true; every booking
\* trigger sets calOpen, the Close button and the backdrop clear it, no other
\* event of the mounted page changes it, and the iframe points at the fixed
\* URL.
C13_ModalFlag ==
    [][mounted /\ mounted' =>
          /\ BookingStep => calOpen'
          /\ ClosingStep => ~calOpen'
          /\ calOpen' # calOpen => BookingStep \/ ClosingStep
          /\ ModalShown' <=> calOpen'
          /\ IframeSrc = CalendlyUrl]_vars

\* The modal is open while the drawer is open, the theme was toggled and a
\* form submission is in flight.
C13_Witness == ModalShown /\ navOpen /\ theme = "light" /\ loading

\* The places of the latest run of loop at which a statement of a kind ran.
Places(kind) == { k \in DOMAIN pfTrace : pfTrace[k].op = kind }

\* C14 as stated: in a run of loop every update comes before clearing the
\* canvas and before every drawing.
C14_Original ==
    \A u \in Places("update") : \A d \in Places("clear") \cup Places("draw") : u < d

\* C14, amended: a run of loop first requests the next frame and clears the
\* canvas, before any update and any drawing; then every particle in turn is
\* updated and drawn right after its own update, before the update of the
\* next particle.
C14_DrawnAfterOwnUpdate ==
    pfTrace # << >> =>
        /\ Len(pfTrace) = 2 * Len(particles) + 2
        /\ pfTrace[1] = Stmt("raf", 0)
        /\ pfTrace[2] = Stmt("clear", 0)
        /\ \A i \in DOMAIN particles :
              /\ pfTrace[2 * i + 1] = Stmt("update", i)
              /\ pfTrace[2 * i + 2] = Stmt("draw", i)

\* A frame callback ran loop over the particles.
C14_Witness == frames > 0 /\ Len(particles) >= 60 /\ Len(pfTrace) = 2 * Len(particles) + 2

\* C15: a frame callback requests the next frame before any other work, so
\* at the end of every frame in which the callbacks of the mounted
\* components ran, each loop has a callback pending again (the one its raf
\* handle names), and the next frame can run it.
C15_ReschedulesFirst ==
    [][frames' # frames =>
          /\ pfTrace'[1] = Stmt("raf", 0)
          /\ pfPending' # {} /\ pfRaf' \in pfPending'
          /\ swPending' # {} /\ swRaf' \in swPending'
          /\ mounted']_vars

\* Two frames ran one after the other and callbacks are pending for a third.
C15_Witness == frames >= 2 /\ mounted /\ pfPending # {} /\ swPending # {}

\* A step during which the canvas components stay mounted.
StaysMounted == mounted /\ mounted' /\ mounts' = mounts

\* C16 as stated: while ParticleField stays mounted, no step (frame, pointer
\* move, resize) changes the number of points nor the radius and opacity of
\* any point.
C16_Original ==
    [][StaysMounted =>
          /\ Len(particles') = Len(particles)
          /\ \A i \in DOMAIN particles :
                particles'[i].r = particles[i].r /\ particles'[i].o = particles[i].o]_vars

\* C17 as stated: while SoundWaves stays mounted, the time accumulator never
\* decreases, whatever pointer moves and resizes happen.
C17_Original == [][StaysMounted => swT' >= swT]_vars

\* C18 as stated: a point created exactly on the boundary x = 0 (or y = 0)
\* with outward velocity has the sign of that component flipped by its first
\* update; its second update moves it back toward the inside and leaves the
\* component pointing inward.
C18_Original ==
    [][/\ (probeStart.x = 0 /\ probeStart.vx < 0) =>
              /\ probeSteps = 0 => probe'.vx > 0
              /\ probeSteps = 1 => probe'.x > probe.x /\ probe'.vx > 0
       /\ (probeStart.y = 0 /\ probeStart.vy < 0) =>
              /\ probeSteps = 0 => probe'.vy > 0
              /\ probeSteps = 1 => probe'.y > probe.y /\ probe'.vy > 0]_vars

\* The distance of line 158 between the single particle and the pointer.
ProbeDist ==
    Hypot(probe.x - MouseUnits(probeMouse.x, 2),
          probe.y - MouseUnits(probeMouse.y, 2)) + 1

\* The largest gain of a velocity component in one update: force * 0.02 at
\* the capped force (lines 160-161).
MaxGain == (MaxForce * 2) \div 100

\* The velocity at which damping takes off what the largest gain adds:
\* 0.98 * (v + MaxGain) = v.
VelocityBound == 49 * MaxGain

\* What the repulsion added to the velocity in a step: the particle moves by
\* its velocity after the gain (lines 163-164).
GainX == (probe'.x - probe.x) - probe.vx
GainY == (probe'.y - probe.y) - probe.vy

\* C19: in every update the force is at most 0.6, also for a point exactly
\* at the pointer; the repulsion adds at most 0.012 to each velocity
\* component; and with the pointer at rest no update takes the velocity
\* above the fixed bound 0.588, nor a component above the larger of its
\* previous magnitude and that bound.
C19_ForceAndVelocityBounded ==
    [][/\ Force(ProbeDist) <= MaxForce
       /\ Abs(GainX) <= MaxGain
       /\ Abs(GainY) <= MaxGain
       /\ Abs(probe'.vx) <= Max(Abs(probe.vx), VelocityBound)
       /\ Abs(probe'.vy) <= Max(Abs(probe.vy), VelocityBound)
       /\ probe'.vx * probe'.vx + probe'.vy * probe'.vy
              <= VelocityBound * VelocityBound]_vars

\* A point created exactly at the pointer went through every update.
C19_Witness ==
    /\ probeSteps = MaxProbeSteps
    /\ probeStart.x = MouseUnits(probeMouse.x, 2)
    /\ probeStart.y = MouseUnits(probeMouse.y, 2)

\* The pointer is far from the particle: beyond the 50 px within which the
\* force is capped (line 159), so that the force is 30 / dist.
ProbeFar == Force(ProbeDist) < MaxForce

\* C20 as stated: with the pointer at rest and far from the point, no update
\* increases the magnitude of a velocity component (the velocity decays
\* toward zero).
C20_Original ==
    [][ProbeFar =>
          /\ Abs(probe'.vx) <= Abs(probe.vx)
          /\ Abs(probe'.vy) <= Abs(probe.vy)]_vars

\* C20, amended: every update multiplies each velocity component by 0.98
\* after adding the repulsion term, whose magnitude is at most 0.02 * force;
\* the component decays by the ratio 0.98 exactly in the updates in which its
\* repulsion term is zero.
C20_DampedAfterGain ==
    [][/\ 100 * Abs(probe'.vx) <= 98 * (Abs(probe.vx) + Force(ProbeDist) \div 50)
       /\ 100 * Abs(probe'.vy) <= 98 * (Abs(probe.vy) + Force(ProbeDist) \div 50)
       /\ GainX = 0 => /\ 100 * Abs(probe'.vx) <= 98 * Abs(probe.vx)
                       /\ 100 * Abs(probe'.vx) > 98 * Abs(probe.vx) - 100
       /\ GainY = 0 => /\ 100 * Abs(probe'.vy) <= 98 * Abs(probe.vy)
                       /\ 100 * Abs(probe'.vy) > 98 * Abs(probe.vy) - 100]_vars

\* A point created at rest far from the pointer has been set moving by the
\* repulsion, and is still far from the pointer.
C20_Witness ==
    /\ probeStart.vx = 0 /\ probeStart.vy = 0
    /\ probeSteps = MaxProbeSteps
    /\ probe.vx # 0
    /\ ProbeFar

\* C21 as stated: the cursor value the callbacks of a frame compute with
\* (the mouse of the active effect) is the position set by the most recent
\* mousemove event, or the origin when there was none.
C21_Original ==
    [][frames' # frames =>
          /\ pfMouse = pfPos
          /\ swMouse = swPos
          /\ moves = 0 => pfMouse = Origin /\ swMouse = Origin]_vars

\* C22: a click on a hash link whose target element does not exist starts no
\* scrolling, replaces no history entry and leaves the drawer as it was.
C22_MissingTargetNoOp ==
    [][\A l \in Links :
          (~TargetExists(l.href) /\ HashClick(l)) =>
              /\ scrollTarget' = scrollTarget
              /\ lastReplace' = lastReplace
              /\ navOpen' = navOpen]_vars

\* A link to a missing target was clicked while the drawer was open, after
\* an earlier click had scrolled to a section.
C22_Witness ==
    /\ ~TargetExists(urlHash) /\ urlHash # NoHref
    /\ navOpen
    /\ scrollTarget = "#contact" /\ lastReplace = "#contact"

\* C26 as stated: a click on a link of the open drawer whose target section
\* exists closes the drawer and scrolls to the target.
C26_Original ==
    [][\A l \in Links :
          (l.place = "drawer" /\ TargetExists(l.href) /\ HashClick(l)) =>
              ~navOpen' /\ scrollTarget' = l.href]_vars

\* C23: at most one request is in flight, and while one is in flight loading
\* is true and the submit control is disabled.
C23_OneInFlight ==
    /\ Len(network) <= 1
    /\ network # << >> => loading /\ SubmitDisabled

\* A second attempt is in flight, after the first one failed.
C23_Witness == Len(network) = 1 /\ submits = 2 /\ requests = 2 /\ SubmitDisabled

\* C24: while a submission is in flight no outcome message is shown (ok is
\* null); the message of an earlier attempt is removed when a new attempt
\* starts, and ok changes from null only in the step that settles the
\* attempt.
C24_NoMessageWhileLoading ==
    [][/\ loading => ok = "null" /\ ~SuccessShown /\ ~FailureShown
       /\ (~loading /\ loading') => ok' = "null"
       /\ (ok = "null" /\ ok' # "null") => Settles]_vars

\* A new attempt is in flight after one that had left the failure message.
C24_Witness ==
    loading /\ ok = "null" /\ submits = 2 /\ lastResponse.kind = "error"

\* C25: the step that settles a request, by a response of any status or by a
\* rejection, leaves loading false and the submit control enabled; so with a
\* webhook that answers, a loading form always becomes non-loading again.
C25_LoadingEnds ==
    /\ [][Len(network') < Len(network) => ~loading' /\ ~SubmitDisabled']_vars
    /\ (loading ~> ~loading)

\* An attempt that ended with a non-2xx response left the form enabled.
C25_Witness ==
    /\ Settled /\ ~SubmitDisabled
    /\ lastResponse.kind = "status" /\ lastResponse.status = 500

====
